---- MODULE Spec2Model ----
(***************************************************************************)
(* Voice-signal analysis engine of confidencecompass: the three analyzer   *)
(* classes (VoiceAnalyzer, EnhancedVoiceAnalyzer, AdvancedVoiceAnalyzer),  *)
(* their lifecycle (initialize / analyze / destroy), the raw-window buffer *)
(* fed by the audio callback, the bounded metrics history and the feature  *)
(* extractors; the useVoiceAnalyzer hook that drives them; and the two     *)
(* server-side services AIConversationService and LiveKitService.          *)
(*                                                                         *)
(* JavaScript numbers are modelled in decimal fixed point: a number x is   *)
(* the integer x * Scale, every arithmetic step of the source is done in   *)
(* that grid (truncating), and the two IEEE specials the source can        *)
(* produce, NaN (0/0) and Infinity (x/0), are the sentinels NaN and        *)
(* Infinity.  Byte arrays and sample windows are sequences; a null array   *)
(* is the empty sequence, a null handle is the string "null" and a held    *)
(* one the string "held".                                                  *)
(***************************************************************************)
EXTENDS Integers, Sequences, FiniteSets, TLC

VARIABLES
    kind,                \* class of the object: "basic", "enhanced", "advanced"
    deepgramApiKey,      \* constructor argument: TRUE when a key was given
    audioContext,        \* handle fields: "null" or "held"
    analyser,
    microphone,
    scriptProcessor,
    deepgramConnection,
    dataArray,           \* Uint8Array | null  (<<>> is null)
    frequencyData,
    audioBuffer,         \* Float32Array[]: sequence of sample windows
    metricsHistory,      \* EnhancedVoiceMetrics[]
    isAnalyzing,
    transcriptionBuffer, \* string, as a sequence of characters
    audioEvents,         \* audioprocess delivery: "off", "live", "late" (one event still
                         \* queued after disconnect), "leaked" (an older graph, replaced by
                         \* a second initialize(), is still connected)
    initPc,              \* position of an initialize() call: "idle" / "awaitDeepgram"
    tickPc,              \* position of an analyzeCurrentVoice() call: "idle" / "awaitMetrics"
    pendingMetrics,      \* the metrics a suspended analyzeCurrentVoice() holds
    now,                 \* Date.now(), one unit per analysis call
    lastOp,              \* last completed step: [op, outcome]
    lastResult,          \* value returned by the last successful analysis (<<>> if none)
    calls,               \* call log: which lifecycle calls have happened so far
    recInput,            \* argument of a generateRecommendations call (<<>> if none)
    recOutput,           \* its return value (<<>> before the call)
    hook,                \* the useVoiceAnalyzer instance that drives the analyzer: its
                         \* refs, its live timers and the position of startRecording
    probe,               \* one call of an extractor taken alone: its arguments and its
                         \* return value (<<>> when no extractor is under study)
    aiService,           \* the AIConversationService singleton: activeSessions and the
                         \* processUserInput() calls suspended on the LLM
    liveKit              \* the LiveKitService: activeAgents, agentHealthChecks, the
                         \* spawned processes and the live interval timers

objVars == <<audioContext, analyser, microphone, scriptProcessor, deepgramConnection,
             dataArray, frequencyData, audioBuffer, metricsHistory, isAnalyzing,
             transcriptionBuffer>>

vars == <<kind, deepgramApiKey, audioContext, analyser, microphone, scriptProcessor,
          deepgramConnection, dataArray, frequencyData, audioBuffer, metricsHistory,
          isAnalyzing, transcriptionBuffer, audioEvents, initPc, tickPc,
          pendingMetrics, now, lastOp, lastResult, calls, recInput, recOutput, hook,
          probe, aiService, liveKit>>

\* the state outside the analyzers and the hook
restVars == <<probe, aiService, liveKit>>

(***************************************************************************)
(* Bounds of the model.                                                    *)
(***************************************************************************)
FrameLen == 72       \* bytes per analyser frame (frequencyBinCount)
WinLen == 120        \* samples per raw audio window
MaxWindows == 5      \* audio callbacks delivered in the lifecycle specification
MaxTicks == 1        \* analysis calls in the lifecycle specification
MaxInits == 2        \* initialize() calls in the lifecycle specification

(***************************************************************************)
(* Numbers.                                                                *)
(***************************************************************************)
Scale == 100
NaN == -999999999
Infinity == 999999999

Fx(n) == n * Scale

Abs(x) == IF x < 0 THEN -x ELSE x

\* a / n for an integer count n > 0, truncating toward zero
TruncDiv(a, n) == IF a >= 0 THEN a \div n ELSE -((-a) \div n)

\* product of two fixed-point numbers
MulFx(a, b) == TruncDiv(a * b, Scale)

\* quotient of two fixed-point numbers, b > 0, without overflowing a * Scale
DivFx(a, b) ==
    LET q(x) == (x \div b) * Scale + ((x % b) * Scale) \div b
    IN  IF a >= 0 THEN q(a) ELSE -q(-a)

\* IEEE division a / b as the source's JavaScript performs it
JsDiv(a, b) ==
    IF a = NaN \/ b = NaN THEN NaN
    ELSE IF b = 0 THEN (IF a = 0 THEN NaN ELSE Infinity)
    ELSE IF b > 0 THEN DivFx(a, b) ELSE -DivFx(a, -b)

MathMin(a, b) == IF a = NaN \/ b = NaN THEN NaN ELSE IF a < b THEN a ELSE b
MathMax(a, b) == IF a = NaN \/ b = NaN THEN NaN ELSE IF a > b THEN a ELSE b
JsAdd(a, b) == IF a = NaN \/ b = NaN THEN NaN ELSE a + b
JsSub(a, b) == IF a = NaN \/ b = NaN THEN NaN ELSE a - b
JsMul(a, b) ==
    IF a = NaN \/ b = NaN THEN NaN
    ELSE IF a = Infinity \/ b = Infinity THEN Infinity
    ELSE MulFx(a, b)

\* Math.sqrt on the grid: floor(sqrt(x / Scale) * Scale) = floor(sqrt(x * Scale))
RECURSIVE SqrtSearch(_, _, _)
SqrtSearch(n, lo, hi) ==
    IF lo >= hi THEN lo
    ELSE LET mid == (lo + hi + 1) \div 2
         IN  IF mid * mid <= n THEN SqrtSearch(n, mid, hi) ELSE SqrtSearch(n, lo, mid - 1)

MathSqrt(x) == SqrtSearch(x * Scale, 0, 46340)

\* Math.log10 on the grid for x >= 1: integer part by division, then LogBits
\* fractional bits by repeated squaring
LogBits == 6

RECURSIVE Log10Frac(_, _, _)
Log10Frac(x, k, unit) ==
    IF k = 0 THEN 0
    ELSE LET sq == MulFx(x, x)
         IN  IF sq >= Fx(10) THEN unit \div 2 + Log10Frac(sq \div 10, k - 1, unit \div 2)
             ELSE Log10Frac(sq, k - 1, unit \div 2)

RECURSIVE MathLog10(_)
MathLog10(x) ==
    IF x >= Fx(10) THEN Scale + MathLog10(x \div 10)
    ELSE Log10Frac(x, LogBits, Scale)

\* sum of f[i] for i in lo..hi
RECURSIVE SumRange(_, _, _)
SumRange(f, lo, hi) ==
    IF lo > hi THEN 0
    ELSE IF lo = hi THEN f[lo]
    ELSE LET mid == (lo + hi) \div 2
         IN  SumRange(f, lo, mid) + SumRange(f, mid + 1, hi)

SumSeq(s) == SumRange(s, 1, Len(s))

SliceLast(s, n) == IF Len(s) <= n THEN s ELSE SubSeq(s, Len(s) - n + 1, Len(s))

(***************************************************************************)
(* Inputs: analyser frames (time-domain and frequency-domain bytes) and    *)
(* raw sample windows delivered by the audio callback.                     *)
(***************************************************************************)
\* a muted or silent source: every time-domain byte at the midpoint, no spectrum
SilentFrame ==
    [time |-> [i \in 1..FrameLen |-> 128], freq |-> [i \in 1..FrameLen |-> 0]]

\* quiet speech: a slow +-20 square wave, energy in the low bins
SpeechFrame ==
    [time |-> [i \in 1..FrameLen |-> IF ((i - 1) \div 4) % 2 = 0 THEN 148 ELSE 108],
     freq |-> [i \in 1..FrameLen |-> IF i = 3 THEN 180 ELSE IF i = 7 THEN 90
                                     ELSE IF i < 12 THEN 20 ELSE 0]]

\* full-scale square wave alternating every sample, energy around 4 kHz
LoudFrame ==
    [time |-> [i \in 1..FrameLen |-> IF i % 2 = 1 THEN 0 ELSE 255],
     freq |-> [i \in 1..FrameLen |-> IF i = 14 THEN 200 ELSE IF i \in {13, 15} THEN 100
                                     ELSE 0]]

Frames == {SilentFrame, SpeechFrame, LoudFrame}

\* what a muted track delivers: all samples zero
ZeroWindow == [i \in 1..WinLen |-> 0]

\* +-0.5 square wave with a period of 110 samples
SquareWindow == [i \in 1..WinLen |-> IF ((i - 1) % 110) < 55 THEN Scale \div 2
                                     ELSE -(Scale \div 2)]

Windows == {ZeroWindow, SquareWindow}

(***************************************************************************)
(* EnhancedVoiceAnalyzer: feature extractors.  Each takes the fields it    *)
(* reads (data = dataArray, freq = frequencyData, buf = audioBuffer).      *)
(***************************************************************************)
sampleRate == 44100
HistoryCap == 300

\* variant: the byte scaled without centring on 128
uncentredSample(b) == TruncDiv(Fx(b), 128)

\* (byte - 128) / 128
ByteSample(b) == TruncDiv(Fx(b - 128), 128)

\* sum of squares of the samples of a float window
WindowEnergy(w) == SumSeq([i \in 1..Len(w) |-> MulFx(w[i], w[i])])

calculateVolume(data) ==
    IF data = <<>> THEN 0
    ELSE LET sum == SumSeq([i \in 1..Len(data) |->
                               MulFx(ByteSample(data[i]), ByteSample(data[i]))])
             rms == MathSqrt(TruncDiv(sum, Len(data)))
         IN  MathMin(Fx(100), MulFx(rms, Fx(200)))

\* autocorrelate(buffer)[lag]
autocorrelate(buffer, lag) ==
    LET length == Len(buffer)
        sum == SumSeq([i \in 1..(length - lag) |-> MulFx(buffer[i], buffer[i + lag])])
    IN  TruncDiv(sum, length - lag)

\* the loop of detectFundamentalFrequency from `period` on: the best period found
RECURSIVE bestPeriodFrom(_, _, _, _, _)
bestPeriodFrom(buffer, period, limit, bestPeriod, bestCorrelation) ==
    IF period >= limit THEN bestPeriod
    ELSE LET c == autocorrelate(buffer, period)
         IN  IF c > bestCorrelation
             THEN bestPeriodFrom(buffer, period + 1, limit, period, c)
             ELSE bestPeriodFrom(buffer, period + 1, limit, bestPeriod, bestCorrelation)

detectFundamentalFrequency(buf) ==
    IF Len(buf) = 0 THEN Fx(150)
    ELSE LET latestBuffer == buf[Len(buf)]
             minPeriod == sampleRate \div 400
             maxPeriod == sampleRate \div 80
             limit == IF maxPeriod < Len(latestBuffer) THEN maxPeriod ELSE Len(latestBuffer)
             bestPeriod == bestPeriodFrom(latestBuffer, minPeriod, limit, 0, 0)
         IN  IF bestPeriod > 0 THEN DivFx(Fx(sampleRate), Fx(bestPeriod)) ELSE Fx(150)

calculatePitch(freq, buf) ==
    IF freq = <<>> THEN 0
    ELSE LET fundamentalFreq == detectFundamentalFrequency(buf)
             minPitch == Fx(80)
             maxPitch == Fx(400)
         IN  MathMax(0, MathMin(Fx(100),
                 MulFx(DivFx(fundamentalFreq - minPitch, maxPitch - minPitch), Fx(100))))

\* frequency of bin i (0-based) in Hz
BinFrequency(i, n) == TruncDiv(Fx(i * sampleRate), 2 * n)

calculateSpectralCentroid(freq) ==
    IF freq = <<>> THEN 0
    ELSE LET n == Len(freq)
             weightedSum == SumRange([i \in 1..n |-> BinFrequency(i - 1, n) * freq[i]], 2, n)
             magnitudeSum == SumRange(freq, 2, n)
             centroid == IF magnitudeSum > 0 THEN TruncDiv(weightedSum, magnitudeSum) ELSE 0
         IN  MathMin(Fx(100), MulFx(DivFx(centroid, Fx(4000)), Fx(100)))

\* first 0-based bin from i on whose cumulative energy reaches the threshold, or -1
RECURSIVE rolloffBin(_, _, _, _)
rolloffBin(freq, i, cumulativeEnergy, threshold) ==
    IF i > Len(freq) THEN -1
    ELSE LET c == cumulativeEnergy + freq[i] * freq[i]
         IN  IF Fx(c) >= threshold THEN i - 1 ELSE rolloffBin(freq, i + 1, c, threshold)

calculateSpectralRolloff(freq) ==
    IF freq = <<>> THEN 0
    ELSE LET totalEnergy == SumSeq([i \in 1..Len(freq) |-> freq[i] * freq[i]])
             threshold == totalEnergy * 85
             bin == rolloffBin(freq, 1, 0, threshold)
         IN  IF bin < 0 THEN 0
             ELSE MathMin(Fx(100),
                      MulFx(DivFx(BinFrequency(bin, Len(freq)), Fx(8000)), Fx(100)))

calculateZeroCrossingRate(data) ==
    IF data = <<>> THEN 0
    ELSE LET crossing(i) ==
                 LET current == data[i] - 128
                     previous == data[i - 1] - 128
                 IN  (current > 0 /\ previous <= 0) \/ (current <= 0 /\ previous > 0)
             crossings == Cardinality({i \in 2..Len(data) : crossing(i)})
             rate == DivFx(Fx(crossings), Fx(Len(data)))
         IN  MathMin(Fx(100), rate * 1000)

calculateClarity(data, freq) ==
    IF freq = <<>> THEN 0
    ELSE LET clarityScore == MulFx(calculateSpectralCentroid(freq), 40)
                             + MulFx(calculateSpectralRolloff(freq), 30)
                             + MulFx(calculateZeroCrossingRate(data), 30)
         IN  MathMax(0, MathMin(Fx(100), clarityScore))

calculatePace(buf) ==
    IF Len(buf) < 10 THEN Fx(50)
    ELSE LET recentBuffers == SliceLast(buf, 10)
             energyChanges == Cardinality({i \in 1..Len(recentBuffers) :
                                              WindowEnergy(recentBuffers[i]) > 1})
             speechRate == MulFx(DivFx(Fx(energyChanges), Fx(Len(recentBuffers))), Fx(100))
         IN  MathMax(0, MathMin(Fx(100), speechRate))

\* 0-based bins that findSpectralPeaks reports, low to high
spectralPeakBins(freq) ==
    {i \in 2..(Len(freq) - 3) :
        /\ freq[i + 1] > 50
        /\ freq[i + 1] > freq[i]
        /\ freq[i + 1] > freq[i + 2]
        /\ freq[i + 1] > freq[i - 1]
        /\ freq[i + 1] > freq[i + 3]}

\* magnitudes of the first ten peaks (peaks.slice(0, 10)), summed
findSpectralPeaks(freq) ==
    LET bins == spectralPeakBins(freq)
        kept == {i \in bins : Cardinality({j \in bins : j < i}) < 10}
    IN  SumSeq([k \in 1..Len(freq) |-> IF (k - 1) \in kept THEN freq[k] ELSE 0])

estimateHNR(freq) ==
    IF freq = <<>> THEN Fx(15)
    ELSE LET harmonicEnergy == findSpectralPeaks(freq)
             totalEnergy == SumSeq(freq)
             rest == IF totalEnergy - harmonicEnergy > 1 THEN totalEnergy - harmonicEnergy ELSE 1
             hnr == DivFx(Fx(harmonicEnergy), Fx(rest))
         IN  MathMax(0, MathMin(Fx(30), 20 * MathLog10(hnr + Fx(1))))

\* Math.sqrt(sum of squares / length) of one window
WindowRms(w) == MathSqrt(TruncDiv(WindowEnergy(w), Len(w)))

\* mean absolute deviation from the mean, over the mean, in percent
RelativeVariation(values) ==
    LET n == Len(values)
        avg == TruncDiv(SumSeq(values), n)
        variations == [i \in 1..n |-> Abs(values[i] - avg)]
    IN  JsMul(JsDiv(TruncDiv(SumSeq(variations), n), avg), Fx(100))

\* variant: the stability analysis already runs on three windows
stabilityFromThreeWindows(freq, buf) ==
    IF Len(buf) < 3 THEN [jitter |-> 0, shimmer |-> 0, harmonicNoiseRatio |-> Fx(15)]
    ELSE LET recent == SliceLast(buf, 5)
             pitchValues == [i \in 1..Len(recent) |-> detectFundamentalFrequency(buf)]
             amplitudeValues == [i \in 1..Len(recent) |-> WindowRms(recent[i])]
         IN  [jitter |-> MathMin(Fx(10), RelativeVariation(pitchValues)),
              shimmer |-> MathMin(Fx(10), RelativeVariation(amplitudeValues)),
              harmonicNoiseRatio |-> estimateHNR(freq)]

analyzeVoiceStability(freq, buf) ==
    IF Len(buf) < 5 THEN [jitter |-> 0, shimmer |-> 0, harmonicNoiseRatio |-> Fx(15)]
    ELSE LET recent == SliceLast(buf, 5)
             pitchValues == [i \in 1..Len(recent) |-> detectFundamentalFrequency(buf)]
             jitter == RelativeVariation(pitchValues)
             amplitudeValues == [i \in 1..Len(recent) |-> WindowRms(recent[i])]
             shimmer == RelativeVariation(amplitudeValues)
         IN  [jitter |-> MathMin(Fx(10), jitter),
              shimmer |-> MathMin(Fx(10), shimmer),
              harmonicNoiseRatio |-> estimateHNR(freq)]

(***************************************************************************)
(* Transcript text.  A string is a sequence of one-character strings.      *)
(***************************************************************************)
ToLowerCase(c) ==
    CASE c = "U" -> "u" [] c = "M" -> "m" [] c = "H" -> "h" [] c = "L" -> "l"
      [] c = "I" -> "i" [] c = "K" -> "k" [] c = "E" -> "e" [] OTHER -> c

\* String.prototype.split(' '): the pieces between single spaces, empty pieces kept
RECURSIVE SplitFrom(_, _, _)
SplitFrom(s, i, word) ==
    IF i > Len(s) THEN <<word>>
    ELSE IF s[i] = " " THEN <<word>> \o SplitFrom(s, i + 1, <<>>)
    ELSE SplitFrom(s, i + 1, Append(word, s[i]))

Split(s) == SplitFrom(s, 1, <<>>)

fillerWords ==
    << <<"u", "m">>, <<"u", "h">>, <<"l", "i", "k", "e">>,
       <<"y", "o", "u", " ", "k", "n", "o", "w">>,
       <<"s", "o", "r", "t", " ", "o", "f">>,
       <<"k", "i", "n", "d", " ", "o", "f">>,
       <<"a", "c", "t", "u", "a", "l", "l", "y">>,
       <<"b", "a", "s", "i", "c", "a", "l", "l", "y">> >>

countFillerWords(transcript) ==
    LET words == Split([i \in 1..Len(transcript) |-> ToLowerCase(transcript[i])])
    IN  Cardinality({i \in 1..Len(words) :
                        \E k \in 1..Len(fillerWords) : fillerWords[k] = words[i]})

analyzePauses(buf) ==
    IF Len(buf) < 10 THEN 0
    ELSE LET recent == SliceLast(buf, 20)
             pauseCount == Cardinality({i \in 1..Len(recent) :
                               TruncDiv(WindowEnergy(recent[i]), Len(recent[i])) < 1})
             span == IF Len(buf) < 20 THEN Len(buf) ELSE 20
         IN  MulFx(DivFx(Fx(pauseCount), Fx(span)), Fx(100))

\* variant: the normalized rate is not floored at 0
speechRateUnfloored(transcript, historyLength) ==
    LET pieces == Split(transcript)
        words == Cardinality({i \in 1..Len(pieces) : Len(pieces[i]) > 0})
        timeWindow == IF historyLength < 60 THEN historyLength ELSE 60
    IN  IF timeWindow = 0 THEN 0
        ELSE MathMin(Fx(100),
                 MulFx(DivFx(DivFx(Fx(words), Fx(timeWindow)) * 60 - Fx(80), Fx(200 - 80)),
                       Fx(100)))

calculateSpeechRate(transcript, historyLength) ==
    LET pieces == Split(transcript)
        words == Cardinality({i \in 1..Len(pieces) : Len(pieces[i]) > 0})
        timeWindow == IF historyLength < 60 THEN historyLength ELSE 60
    IN  IF timeWindow = 0 THEN 0
        ELSE LET wordsPerMinute == DivFx(Fx(words), Fx(timeWindow)) * 60
             IN  MathMax(0, MathMin(Fx(100),
                     MulFx(DivFx(wordsPerMinute - Fx(80), Fx(200 - 80)), Fx(100))))

calculateHighFrequencyEnergy(freq) ==
    IF freq = <<>> THEN 0
    ELSE LET highFreqStart == (Len(freq) * 6) \div 10
             highFreqSum == SumRange(freq, highFreqStart + 1, Len(freq))
             totalSum == SumSeq(freq)
         IN  IF totalSum > 0 THEN MulFx(DivFx(Fx(highFreqSum), Fx(totalSum)), Fx(100)) ELSE 0

calculateArticulation(freq) ==
    MathMax(0, MathMin(Fx(100), MulFx(calculateSpectralCentroid(freq), 60)
                                + MulFx(calculateHighFrequencyEnergy(freq), 40)))

analyzeFluency(freq, buf, transcript, historyLength) ==
    [fillerWordCount |-> countFillerWords(transcript),
     pauseFrequency |-> analyzePauses(buf),
     speechRate |-> calculateSpeechRate(transcript, historyLength),
     articulation |-> calculateArticulation(freq)]

\* > and < of numbers: false when an operand is NaN
Greater(a, b) == a # NaN /\ b # NaN /\ a > b
Less(a, b) == a # NaN /\ b # NaN /\ a < b

\* variant: every rule is tried in turn and the last one that matches wins
primaryEmotionLastMatch(arousal, valence, dominance) ==
    IF Greater(dominance, Fx(70)) THEN "confident"
    ELSE IF Greater(arousal, Fx(70)) THEN "excited"
    ELSE IF Less(arousal, Fx(40)) /\ Less(valence, Fx(40)) THEN "sad"
    ELSE IF Greater(arousal, Fx(60)) /\ Less(valence, Fx(40)) THEN "angry"
    ELSE IF Greater(arousal, Fx(60)) /\ Greater(valence, Fx(60)) THEN "happy"
    ELSE "neutral"

\* the label rules of analyzeEmotion, first match wins
primaryEmotion(arousal, valence, dominance) ==
    IF Greater(arousal, Fx(60)) /\ Greater(valence, Fx(60)) THEN "happy"
    ELSE IF Greater(arousal, Fx(60)) /\ Less(valence, Fx(40)) THEN "angry"
    ELSE IF Less(arousal, Fx(40)) /\ Less(valence, Fx(40)) THEN "sad"
    ELSE IF Greater(arousal, Fx(70)) THEN "excited"
    ELSE IF Greater(dominance, Fx(70)) THEN "confident"
    ELSE "neutral"

analyzeEmotion(data, freq, buf) ==
    LET spectralCentroid == calculateSpectralCentroid(freq)
        energy == calculateVolume(data)
        pitch == calculatePitch(freq, buf)
        jitter == analyzeVoiceStability(freq, buf).jitter
        arousal == MathMin(Fx(100), MulFx(energy, 60) + MulFx(spectralCentroid, 40))
        valence == MathMin(Fx(100),
                       JsAdd(MulFx(pitch, 40), JsMul(JsSub(Fx(100), JsMul(jitter, Fx(10))), 60)))
        dominance == MathMin(Fx(100), MulFx(energy, 50) + MulFx(calculateClarity(data, freq), 50))
    IN  [valence |-> valence, arousal |-> arousal, dominance |-> dominance,
         primaryEmotion |-> primaryEmotion(arousal, valence, dominance)]

analyzeCommunicationQuality ==
    [eyeContactScore |-> Fx(75), gestureNaturalness |-> Fx(80),
     overallPresence |-> Fx(78), engagement |-> Fx(82)]

calculateEnhancedMetrics(data, freq, buf, transcript, historyLength, timestamp) ==
    [volume |-> calculateVolume(data),
     pitch |-> calculatePitch(freq, buf),
     clarity |-> calculateClarity(data, freq),
     pace |-> calculatePace(buf),
     voiceStability |-> analyzeVoiceStability(freq, buf),
     fluency |-> analyzeFluency(freq, buf, transcript, historyLength),
     emotion |-> analyzeEmotion(data, freq, buf),
     communicationQuality |-> analyzeCommunicationQuality,
     timestamp |-> timestamp]

\* variant: the trends list the oldest snapshots
trendsFromOldest(history) ==
    LET n == IF Len(history) < 30 THEN Len(history) ELSE 30
    IN  [volumeTrend |-> [i \in 1..n |-> history[i].volume],
         clarityTrend |-> [i \in 1..n |-> history[i].clarity],
         paceTrend |-> [i \in 1..n |-> history[i].pace]]

calculateTrends(history) ==
    LET recent == SliceLast(history, 30)
    IN  [volumeTrend |-> [i \in 1..Len(recent) |-> recent[i].volume],
         clarityTrend |-> [i \in 1..Len(recent) |-> recent[i].clarity],
         paceTrend |-> [i \in 1..Len(recent) |-> recent[i].pace]]

\* the rule table of generateRecommendations: the messages pushed, in order
triggeredRecommendations(metrics) ==
    (IF metrics.volume < Fx(30) THEN <<"Speak louder for better projection">>
     ELSE IF metrics.volume > Fx(80) THEN <<"Lower your voice volume slightly">>
     ELSE <<>>)
    \o (IF metrics.clarity < Fx(60) THEN <<"Focus on clearer articulation">> ELSE <<>>)
    \o (IF metrics.pace < Fx(30) THEN <<"Increase your speaking pace">>
        ELSE IF metrics.pace > Fx(80) THEN <<"Slow down your speaking pace">>
        ELSE <<>>)
    \o (IF metrics.fluency.fillerWordCount > 3 THEN <<"Reduce use of filler words">>
        ELSE <<>>)
    \o (IF metrics.fluency.pauseFrequency > Fx(30) THEN <<"Reduce excessive pauses">>
        ELSE <<>>)
    \o (IF metrics.voiceStability.jitter > Fx(2) THEN <<"Work on voice steadiness">>
        ELSE <<>>)

\* variant: every triggered message is returned
recommendationsUncut(metrics) == triggeredRecommendations(metrics)

generateRecommendations(metrics) ==
    LET recommendations == triggeredRecommendations(metrics)
    IN  SubSeq(recommendations, 1, IF Len(recommendations) < 3 THEN Len(recommendations) ELSE 3)

calculateOverallScore(metrics) ==
    LET stabilityScore == JsSub(Fx(100), JsAdd(JsMul(metrics.voiceStability.jitter, Fx(5)),
                                               JsMul(metrics.voiceStability.shimmer, Fx(5))))
        fluencyScore == Fx(100) - (Fx(metrics.fluency.fillerWordCount * 5)
                                   + MulFx(metrics.fluency.pauseFrequency, 50))
        emotionScore == TruncDiv(metrics.emotion.valence + metrics.emotion.arousal
                                 + metrics.emotion.dominance, 3)
        score == JsAdd(MulFx(metrics.volume, 15) + MulFx(metrics.clarity, 25)
                       + MulFx(metrics.pace, 20),
                       JsAdd(JsMul(MathMax(0, stabilityScore), 15),
                             MulFx(MathMax(0, fluencyScore), 15) + MulFx(emotionScore, 10)))
    IN  MathMax(0, MathMin(Fx(100), score))

(***************************************************************************)
(* VoiceAnalyzer (basic) and AdvancedVoiceAnalyzer: the metrics returned   *)
(* by analyze() and analyzeVoice().                                        *)
(***************************************************************************)
VA_calculateVolume(timeData) ==
    LET sum == SumSeq([i \in 1..Len(timeData) |->
                          MulFx(ByteSample(timeData[i]), ByteSample(timeData[i]))])
        rms == MathSqrt(TruncDiv(sum, Len(timeData)))
    IN  MathMin(Fx(100), MulFx(MulFx(rms, Fx(100)), Fx(3)))

\* variant: the scan with >= in place of >, where a later bin of equal magnitude
\* replaces the tracked one
RECURSIVE dominantBinLast(_, _, _, _, _)
dominantBinLast(freq, i, limit, maxIndex, maxValue) ==
    IF i >= limit \/ i >= Len(freq) THEN maxIndex
    ELSE IF freq[i + 1] >= maxValue
         THEN dominantBinLast(freq, i + 1, limit, i, freq[i + 1])
         ELSE dominantBinLast(freq, i + 1, limit, maxIndex, maxValue)

\* the scan of calculatePitch over the 0-based bins i..limit-1: the first bin whose
\* magnitude exceeds every earlier one (0 when none exceeds 0)
RECURSIVE dominantBin(_, _, _, _, _)
dominantBin(freq, i, limit, maxIndex, maxValue) ==
    IF i >= limit \/ i >= Len(freq) THEN maxIndex
    ELSE IF freq[i + 1] > maxValue
         THEN dominantBin(freq, i + 1, limit, i, freq[i + 1])
         ELSE dominantBin(freq, i + 1, limit, maxIndex, maxValue)

\* the source declares maxIndex twice (the tracked bin and the band's upper end);
\* they are read here as the two variables the loop needs
VA_calculatePitch(freq) ==
    LET n == Len(freq)
        minIndex == (80 * n) \div (sampleRate \div 2)
        bandEnd == (1000 * n) \div (sampleRate \div 2)
        maxIndex == dominantBin(freq, minIndex, bandEnd, 0, 0)
    IN  TruncDiv(Fx(maxIndex * sampleRate) \div 2, n)

VA_calculateClarity(freq) ==
    LET n == Len(freq)
        weightedSum == SumSeq([i \in 1..n |-> BinFrequency(i - 1, n) * freq[i]])
        magnitudeSum == SumSeq(freq)
    IN  IF magnitudeSum = 0 THEN 0
        ELSE MathMin(Fx(100),
                 MulFx(DivFx(TruncDiv(weightedSum, magnitudeSum), Fx(4000)), Fx(100)))

detectVoiceActivity(timeData) == VA_calculateVolume(timeData) > Fx(5)

\* Math.random() * 120 + 60 takes any value in [60, 180); these are sampled
PaceSamples == {Fx(60), Fx(179)}

VA_analyze(timeData, freq, pace) ==
    [volume |-> VA_calculateVolume(timeData),
     pitch |-> VA_calculatePitch(freq),
     clarity |-> VA_calculateClarity(freq),
     pace |-> pace,
     voiceActivity |-> detectVoiceActivity(timeData)]

AVA_calculatePitch(freq) ==
    LET n == Len(freq)
        maxIndex == dominantBin(freq, 1, (n + 3) \div 4, 0, 0)
    IN  TruncDiv(Fx(maxIndex * sampleRate), 2 * n)

AVA_estimateSpeakingPace(data) ==
    LET zeroCrossings == Cardinality({i \in 2..Len(data) :
                             (data[i] - 128) * (data[i - 1] - 128) < 0})
        zcr == DivFx(Fx(zeroCrossings), Fx(Len(data)))
    IN  MathMin(Fx(200), zcr * 1000)

\* volume, pitch, clarity, pace and timestamp of analyzeVoice(); calculateVolume and
\* calculateClarity of this class are the formulas of VA_calculateClarity and of the
\* enhanced calculateVolume
AVA_analyzeVoice(data, freq, timestamp) ==
    [volume |-> calculateVolume(data),
     pitch |-> AVA_calculatePitch(freq),
     clarity |-> VA_calculateClarity(freq),
     pace |-> AVA_estimateSpeakingPace(data),
     timestamp |-> timestamp]

(***************************************************************************)
(* The object under study: construction, initialize(), the audio callback, *)
(* the analysis entry points and destroy().                                *)
(***************************************************************************)
Kinds == {"basic", "enhanced", "advanced"}

fresh(k, key) ==
    /\ kind = k
    /\ deepgramApiKey = key
    /\ audioContext = "null"
    /\ analyser = "null"
    /\ microphone = "null"
    /\ scriptProcessor = "null"
    /\ deepgramConnection = "null"
    /\ dataArray = <<>>
    /\ frequencyData = <<>>
    /\ audioBuffer = <<>>
    /\ metricsHistory = <<>>
    /\ isAnalyzing = FALSE
    /\ transcriptionBuffer = <<>>
    /\ audioEvents = "off"
    /\ initPc = "idle"
    /\ tickPc = "idle"
    /\ pendingMetrics = <<>>
    /\ now = 0
    /\ lastOp = [op |-> "new", outcome |-> "ok", repeated |-> FALSE]
    /\ lastResult = <<>>
    /\ calls = [inits |-> 0, failed |-> 0, initialized |-> FALSE,
                destroyed |-> FALSE, sinceDestroy |-> FALSE]

\* no component is mounted: the analyzer is driven directly by its caller
unmountedHook ==
    [mounted |-> FALSE, enabled |-> FALSE, pc |-> "idle", intervals |-> {},
     analysisIntervalRef |-> 0, nextId |-> 1, isRecording |-> FALSE, stopped |-> FALSE,
     starts |-> 0]

\* the rooms the two server-side services are asked about
Rooms == {"practice-1", "practice-2"}

\* AIConversationService after its constructor: no session; the key is what
\* process.env.OPENROUTER_API_KEY || "" gave (TRUE when it is non-empty).
\* sessions is the heap of ConversationSession objects, activeSessions maps a
\* room to the index of its session (0: no entry), suspended holds the session
\* of each processUserInput() call waiting for generateAIResponse(), inputs
\* counts the processUserInput() calls made
newAIConversationService(key) ==
    [openRouterApiKey |-> key, sessions |-> <<>>,
     activeSessions |-> [r \in Rooms |-> 0], suspended |-> <<>>, inputs |-> 0,
     last |-> [op |-> "new", room |-> "", outcome |-> "ok"]]

\* LiveKitService after its constructor: both maps empty (0: no entry), no
\* process spawned, no interval timer live.  activeAgents maps a room to the
\* index of its process in processes, agentHealthChecks to the id of its timer;
\* timers holds the intervals not yet cleared, each with the room of its callback
newLiveKitService ==
    [activeAgents |-> [r \in Rooms |-> 0], agentHealthChecks |-> [r \in Rooms |-> 0],
     processes |-> <<>>, timers |-> {}, nextTimer |-> 1,
     last |-> [op |-> "new", room |-> ""]]

\* no extractor is studied alone and the server-side services are untouched
restIdle ==
    /\ probe = <<>>
    /\ aiService = newAIConversationService(TRUE)
    /\ liveKit = newLiveKitService

Init ==
    /\ \E k \in Kinds : \E key \in (IF k = "enhanced" THEN BOOLEAN ELSE {FALSE}) :
           fresh(k, key)
    /\ recInput = <<>>
    /\ recOutput = <<>>
    /\ hook = unmountedHook
    /\ restIdle

done(op, outcome) == [op |-> op, outcome |-> outcome, repeated |-> lastOp.op = op]

\* statements of initialize() that can throw: the AudioContext constructor,
\* createAnalyser, createMediaStreamSource, createScriptProcessor and the connect calls
initSteps == IF kind = "basic" THEN 4 ELSE 7

\* new Uint8Array(bufferLength)
newByteArray == [i \in 1..FrameLen |-> 0]

\* initialize(stream) up to its await; `completed` statements ran before one threw
\* (completed = initSteps: none threw)
initialize(completed) ==
    LET arraysStep == IF kind = "advanced" THEN 3 ELSE 4
        processorStep == IF kind = "enhanced" THEN 5
                         ELSE IF kind = "advanced" THEN 4 ELSE initSteps + 1
        ok == completed = initSteps
        awaits == ok /\ kind = "enhanced" /\ deepgramApiKey
        assigned(step, old) == IF completed >= step THEN "held" ELSE old
    IN  /\ initPc = "idle"
        /\ completed \in 0..initSteps
        /\ audioContext' = assigned(1, audioContext)
        /\ analyser' = assigned(2, analyser)
        /\ microphone' = assigned(3, microphone)
        /\ dataArray' = IF completed >= arraysStep THEN newByteArray ELSE dataArray
        /\ frequencyData' = IF completed >= arraysStep THEN newByteArray ELSE frequencyData
        /\ scriptProcessor' = assigned(processorStep, scriptProcessor)
        /\ audioEvents' = IF ok /\ kind # "basic"
                          THEN (IF audioEvents \in {"live", "leaked"} THEN "leaked" ELSE "live")
                          ELSE audioEvents
        /\ IF awaits
           THEN \E constructed \in BOOLEAN :
                    deepgramConnection' = IF constructed THEN "held" ELSE deepgramConnection
           ELSE UNCHANGED deepgramConnection
        /\ isAnalyzing' = IF ok /\ kind = "enhanced" /\ ~awaits THEN TRUE ELSE isAnalyzing
        /\ initPc' = IF awaits THEN "awaitDeepgram" ELSE "idle"
        /\ lastOp' = done("initialize",
                          IF awaits THEN "pending" ELSE IF ok THEN "ok" ELSE "DeviceError")
        /\ calls' = [calls EXCEPT !.inits = @ + 1,
                                  !.failed = IF ok THEN @ ELSE @ + 1,
                                  !.initialized = @ \/ (ok /\ ~awaits),
                                  !.sinceDestroy = FALSE]
        /\ UNCHANGED <<kind, deepgramApiKey, audioBuffer, metricsHistory,
                       transcriptionBuffer, tickPc, pendingMetrics, now, lastResult,
                       recInput, recOutput>>

\* initialize() of the enhanced class after `await this.initializeDeepgram()`
initializeResume ==
    /\ initPc = "awaitDeepgram"
    /\ isAnalyzing' = TRUE
    /\ initPc' = "idle"
    /\ lastOp' = done("initialize", "ok")
    /\ calls' = [calls EXCEPT !.initialized = TRUE]
    /\ UNCHANGED <<kind, deepgramApiKey, audioContext, analyser, microphone,
                   scriptProcessor, deepgramConnection, dataArray, frequencyData,
                   audioBuffer, metricsHistory, transcriptionBuffer, audioEvents, tickPc,
                   pendingMetrics, now, lastResult, recInput, recOutput>>

analysisWindow == 2048
AVA_analysisWindow == 1024

\* samples per window of the AdvancedVoiceAnalyzer: createScriptProcessor(this.bufferSize, 1, 1)
AVA_bufferSize == 4096

\* Math.ceil((5 * this.sampleRate) / this.analysisWindow)
maxBuffers == (5 * sampleRate + analysisWindow - 1) \div analysisWindow

\* variant: the buffer is never trimmed
pushWithoutShift(buf, window, limit) == Append(buf, window)

\* push, then shift when the length exceeds the limit
pushWindow(buf, window, limit) ==
    LET pushed == Append(buf, window)
    IN  IF Len(pushed) > limit THEN Tail(pushed) ELSE pushed

\* the onaudioprocess handler: processAudioBuffer(buffer)
processAudioBuffer(buffer) ==
    /\ audioEvents # "off"
    /\ initPc = "idle"
    /\ tickPc = "idle"
    /\ audioBuffer' = IF kind = "enhanced"
                      THEN (IF ~isAnalyzing THEN audioBuffer
                            ELSE pushWindow(audioBuffer, buffer, maxBuffers))
                      ELSE pushWindow(audioBuffer, buffer, AVA_analysisWindow)
    /\ audioEvents' = IF audioEvents = "late" THEN "off" ELSE audioEvents
    /\ lastOp' = done("audioprocess", "ok")
    /\ UNCHANGED <<kind, deepgramApiKey, audioContext, analyser, microphone,
                   scriptProcessor, deepgramConnection, dataArray, frequencyData,
                   metricsHistory, isAnalyzing, transcriptionBuffer, initPc, tickPc,
                   pendingMetrics, now, lastResult, calls, recInput, recOutput>>

\* variant: the analysis entry points do not test their fields
guardMissing == FALSE

\* the guard of analyze(), analyzeVoice() and analyzeCurrentVoice()
notInitialized == analyser = "null" \/ dataArray = <<>> \/ frequencyData = <<>>

\* how an analysis call that reads no frame ends: the guard's error, or the
\* TypeError of a method call on a null analyser
refusal == IF notInitialized THEN "NotInitialized"
           ELSE IF analyser = "null" \/ dataArray = <<>> \/ frequencyData = <<>>
           THEN "TypeError" ELSE "none"

refused ==
    /\ lastOp' = done("analyze", refusal)
    /\ UNCHANGED <<dataArray, frequencyData, metricsHistory, tickPc, pendingMetrics,
                   lastResult>>

\* VoiceAnalyzer.analyze() reading `frame`, Math.random() giving `pace`
analyze(frame, pace) ==
    /\ kind = "basic"
    /\ now' = now + 1
    /\ IF refusal # "none" THEN refused
       ELSE /\ dataArray' = frame.time
            /\ frequencyData' = frame.freq
            /\ lastResult' = <<VA_analyze(frame.time, frame.freq, pace)>>
            /\ lastOp' = done("analyze", "ok")
            /\ UNCHANGED <<metricsHistory, tickPc, pendingMetrics>>
    /\ UNCHANGED <<kind, deepgramApiKey, audioContext, analyser, microphone,
                   scriptProcessor, deepgramConnection, audioBuffer, isAnalyzing,
                   transcriptionBuffer, audioEvents, initPc, calls, recInput, recOutput>>

\* AdvancedVoiceAnalyzer.analyzeVoice() reading `frame`
analyzeVoice(frame) ==
    /\ kind = "advanced"
    /\ now' = now + 1
    /\ IF refusal # "none" THEN refused
       ELSE /\ dataArray' = frame.time
            /\ frequencyData' = frame.freq
            /\ lastResult' = <<AVA_analyzeVoice(frame.time, frame.freq, now')>>
            /\ lastOp' = done("analyze", "ok")
            /\ UNCHANGED <<metricsHistory, tickPc, pendingMetrics>>
    /\ UNCHANGED <<kind, deepgramApiKey, audioContext, analyser, microphone,
                   scriptProcessor, deepgramConnection, audioBuffer, isAnalyzing,
                   transcriptionBuffer, audioEvents, initPc, calls, recInput, recOutput>>

\* EnhancedVoiceAnalyzer.analyzeCurrentVoice() reading `frame`, up to its await
analyzeCurrentVoice(frame) ==
    /\ kind = "enhanced"
    /\ tickPc = "idle"
    /\ now' = now + 1
    /\ IF refusal # "none" THEN refused
       ELSE /\ dataArray' = frame.time
            /\ frequencyData' = frame.freq
            /\ pendingMetrics' = <<calculateEnhancedMetrics(frame.time, frame.freq,
                                       audioBuffer, transcriptionBuffer,
                                       Len(metricsHistory), now')>>
            /\ tickPc' = "awaitMetrics"
            /\ lastOp' = done("analyze", "pending")
            /\ UNCHANGED <<metricsHistory, lastResult>>
    /\ UNCHANGED <<kind, deepgramApiKey, audioContext, analyser, microphone,
                   scriptProcessor, deepgramConnection, audioBuffer, isAnalyzing,
                   transcriptionBuffer, audioEvents, initPc, calls, recInput, recOutput>>

\* variant: the history is never trimmed
appendWithoutEviction(history, metrics) == Append(history, metrics)

\* metricsHistory.push(currentMetrics), then shift when longer than 300
appendHistory(history, metrics) ==
    LET pushed == Append(history, metrics)
    IN  IF Len(pushed) > HistoryCap THEN Tail(pushed) ELSE pushed

\* analyzeCurrentVoice() after `await this.calculateEnhancedMetrics()`
analyzeCurrentVoiceResume ==
    /\ tickPc = "awaitMetrics"
    /\ LET currentMetrics == pendingMetrics[1]
           history == appendHistory(metricsHistory, currentMetrics)
       IN  /\ metricsHistory' = history
           /\ lastResult' = <<[currentMetrics |-> currentMetrics,
                               trends |-> calculateTrends(history),
                               recommendations |-> generateRecommendations(currentMetrics),
                               overallScore |-> calculateOverallScore(currentMetrics)]>>
    /\ tickPc' = "idle"
    /\ pendingMetrics' = <<>>
    /\ lastOp' = done("analyze", "ok")
    /\ UNCHANGED <<kind, deepgramApiKey, audioContext, analyser, microphone,
                   scriptProcessor, deepgramConnection, dataArray, frequencyData,
                   audioBuffer, isAnalyzing, transcriptionBuffer, audioEvents, initPc,
                   now, calls, recInput, recOutput>>

\* variants: destroy() releases every handle unguarded; destroy() releases nothing
releaseUnguarded(handle) == TRUE

releaseSkipped(handle) == FALSE

\* the guard in front of each release in destroy(): `if (this.handle)`
canRelease(handle) == handle # "null"

\* variant: destroy() leaves the script processor connected
releaseOrderWithoutProcessor ==
    IF kind = "basic" THEN <<"microphone", "audioContext">>
    ELSE <<"deepgramConnection", "microphone", "analyser", "audioContext">>

\* the handles destroy() releases, in the order of its statements
releaseOrder ==
    IF kind = "enhanced"
    THEN <<"deepgramConnection", "scriptProcessor", "microphone", "analyser", "audioContext">>
    ELSE IF kind = "advanced"
    THEN <<"scriptProcessor", "microphone", "analyser", "audioContext">>
    ELSE <<"microphone", "audioContext">>

held(name) ==
    CASE name = "deepgramConnection" -> deepgramConnection
      [] name = "scriptProcessor" -> scriptProcessor
      [] name = "microphone" -> microphone
      [] name = "analyser" -> analyser
      [] name = "audioContext" -> audioContext

\* position of the first release that is a method call on null (0: none)
thrownAt ==
    LET bad == {i \in 1..Len(releaseOrder) :
                   canRelease(held(releaseOrder[i])) /\ held(releaseOrder[i]) = "null"}
    IN  IF bad = {} THEN 0 ELSE CHOOSE i \in bad : \A j \in bad : i <= j

\* value of the field `name` when destroy() returns or throws
released(name) ==
    IF \E i \in 1..Len(releaseOrder) :
           /\ releaseOrder[i] = name
           /\ thrownAt = 0 \/ i < thrownAt
           /\ canRelease(held(name))
    THEN "null" ELSE held(name)

destroy ==
    LET completes == thrownAt = 0
    IN  /\ deepgramConnection' = released("deepgramConnection")
        /\ scriptProcessor' = released("scriptProcessor")
        /\ microphone' = released("microphone")
        /\ audioContext' = released("audioContext")
        /\ analyser' = IF kind = "basic" THEN (IF completes THEN "null" ELSE analyser)
                       ELSE released("analyser")
        /\ dataArray' = IF kind = "basic" /\ completes THEN <<>> ELSE dataArray
        /\ frequencyData' = IF kind = "basic" /\ completes THEN <<>> ELSE frequencyData
        /\ isAnalyzing' = FALSE
        /\ audioBuffer' = IF kind # "basic" /\ completes THEN <<>> ELSE audioBuffer
        /\ metricsHistory' = IF kind = "enhanced" /\ completes THEN <<>> ELSE metricsHistory
        /\ transcriptionBuffer' = IF kind = "enhanced" /\ completes THEN <<>>
                                  ELSE transcriptionBuffer
        /\ IF scriptProcessor # "null" /\ scriptProcessor' = "null" /\ audioEvents = "live"
           THEN audioEvents' \in {"off", "late"}
           ELSE UNCHANGED audioEvents
        /\ lastOp' = done("destroy", IF completes THEN "ok" ELSE "TypeError")
        /\ calls' = [calls EXCEPT !.destroyed = TRUE, !.sinceDestroy = TRUE]
        /\ UNCHANGED <<kind, deepgramApiKey, initPc, tickPc, pendingMetrics, now,
                       lastResult, recInput, recOutput>>

Next ==
    \/ \E completed \in 0..7 :
           calls.inits < MaxInits /\ initialize(completed) /\ UNCHANGED <<hook, restVars>>
    \/ initializeResume /\ UNCHANGED <<hook, restVars>>
    \/ \E buffer \in Windows :
           Len(audioBuffer) < MaxWindows /\ processAudioBuffer(buffer)
           /\ UNCHANGED <<hook, restVars>>
    \/ \E frame \in Frames, pace \in PaceSamples :
           now < MaxTicks /\ analyze(frame, pace) /\ UNCHANGED <<hook, restVars>>
    \/ \E frame \in Frames : now < MaxTicks /\ analyzeVoice(frame) /\ UNCHANGED <<hook, restVars>>
    \/ \E frame \in Frames :
           now < MaxTicks /\ analyzeCurrentVoice(frame) /\ UNCHANGED <<hook, restVars>>
    \/ analyzeCurrentVoiceResume /\ UNCHANGED <<hook, restVars>>
    \/ destroy /\ UNCHANGED <<hook, restVars>>

Spec == Init /\ [][Next]_vars

(***************************************************************************)
(* Properties of the lifecycle specification.                              *)
(***************************************************************************)
\* a step that is a call of analyze(), analyzeVoice() or analyzeCurrentVoice()
analysisCall == now' = now + 1

\* C1: an analysis call made before any initialize() fails with the
\* not-initialized error and leaves every field of the object unchanged.
C1_AnalyzeBeforeInitializeFails ==
    [][(calls.inits = 0 /\ analysisCall)
           => (lastOp'.outcome = "NotInitialized" /\ UNCHANGED objVars)]_vars

C1_Witness ==
    /\ calls.inits = 0
    /\ lastOp.op = "analyze"
    /\ lastOp.outcome = "NotInitialized"

\* C3: destroy() directly after destroy(), and destroy() on an object that was
\* never initialized, return without an error and change no field.
C3_DestroyIdempotent ==
    [][(lastOp'.op = "destroy" /\ (lastOp.op = "destroy" \/ calls.inits = 0))
           => (lastOp'.outcome = "ok" /\ UNCHANGED objVars)]_vars

C3_Witness ==
    /\ calls.initialized
    /\ lastOp.op = "destroy"
    /\ lastOp.repeated
    /\ lastOp.outcome = "ok"

\* C4: when every initialize() so far has failed, analyzeCurrentVoice() and
\* analyzeVoice() fail with the not-initialized error.
C4_FailedInitializeStaysUninitialized ==
    (/\ kind # "basic"
     /\ calls.inits > 0
     /\ calls.failed = calls.inits
     /\ lastOp.op = "analyze")
        => lastOp.outcome = "NotInitialized"

\* C5: once destroy() has been called, no analysis call succeeds, whatever
\* was called in between, initialize(stream) included.
C5_DestroyedIsTerminal ==
    [][(calls.destroyed /\ analysisCall) => lastOp'.outcome = "NotInitialized"]_vars

\* C6: after destroy() on an analyzer that had been initialized, an analysis
\* call fails with the not-initialized error and appends nothing to the history.
C6_AnalyzeAfterDestroyFails ==
    [][(calls.initialized /\ calls.sinceDestroy /\ analysisCall)
           => (lastOp'.outcome = "NotInitialized" /\ metricsHistory' = metricsHistory)]_vars

C6_Witness ==
    /\ calls.initialized
    /\ calls.sinceDestroy
    /\ lastOp.op = "analyze"
    /\ lastOp.outcome = "NotInitialized"

inRange(x, lo, hi) == x # NaN /\ lo <= x /\ x <= hi

\* C7: every snapshot stored by a tick has volume, clarity and pace in
\* [0,100], jitter and shimmer in [0,10], harmonicNoiseRatio in [0,30], none NaN.
C7_SnapshotInRange ==
    \A i \in 1..Len(metricsHistory) :
        LET m == metricsHistory[i]
        IN  /\ inRange(m.volume, 0, Fx(100))
            /\ inRange(m.clarity, 0, Fx(100))
            /\ inRange(m.pace, 0, Fx(100))
            /\ inRange(m.voiceStability.jitter, 0, Fx(10))
            /\ inRange(m.voiceStability.shimmer, 0, Fx(10))
            /\ inRange(m.voiceStability.harmonicNoiseRatio, 0, Fx(30))

\* C9: a tick that finds fewer than 5 raw windows reports the voice stability
\* defaults: jitter 0, shimmer 0, harmonicNoiseRatio 15.
C9_StabilityDefaults ==
    [][(tickPc = "idle" /\ tickPc' = "awaitMetrics" /\ Len(audioBuffer) < 5)
           => pendingMetrics'[1].voiceStability
                  = [jitter |-> 0, shimmer |-> 0, harmonicNoiseRatio |-> Fx(15)]]_vars

C9_Witness ==
    /\ tickPc = "awaitMetrics"
    /\ Len(audioBuffer) \in 1..4
    /\ pendingMetrics[1].voiceStability.harmonicNoiseRatio = Fx(15)

\* every time-domain byte is at the midpoint 128
silent(bytes) == bytes # <<>> /\ \A i \in 1..Len(bytes) : bytes[i] = 128

\* C10: for a silent frame VoiceAnalyzer.analyze() returns volume 0 and
\* voiceActivity false, and the EnhancedVoiceAnalyzer snapshot has volume 0.
C10_SilentFrame ==
    /\ (kind = "basic" /\ silent(dataArray) /\ lastResult # <<>>)
           => (lastResult[1].volume = 0 /\ lastResult[1].voiceActivity = FALSE)
    /\ (kind = "enhanced" /\ silent(dataArray) /\ tickPc = "awaitMetrics")
           => pendingMetrics[1].volume = 0
    /\ (kind = "enhanced" /\ silent(dataArray) /\ tickPc = "idle" /\ lastResult # <<>>)
           => lastResult[1].currentMetrics.volume = 0

C10_Witness ==
    /\ kind = "basic"
    /\ silent(dataArray)
    /\ lastResult # <<>>
    /\ lastResult[1].volume = 0

(***************************************************************************)
(* The snapshot history over a long run of ticks: one EnhancedVoiceAnalyzer *)
(* is initialized and ticked HistoryTicks times, the analyser frame of a    *)
(* tick being fixed by the tick's number.                                   *)
(***************************************************************************)
HistoryTicks == 302

frameAt(tick) == <<SpeechFrame, SilentFrame, LoudFrame>>[(tick % 3) + 1]

InitHistory ==
    /\ \E key \in BOOLEAN : fresh("enhanced", key)
    /\ recInput = <<>>
    /\ recOutput = <<>>
    /\ hook = unmountedHook
    /\ restIdle

NextHistory ==
    \/ calls.inits = 0 /\ initialize(initSteps) /\ UNCHANGED <<hook, restVars>>
    \/ initializeResume /\ UNCHANGED <<hook, restVars>>
    \/ calls.initialized /\ now < HistoryTicks /\ analyzeCurrentVoice(frameAt(now))
       /\ UNCHANGED <<hook, restVars>>
    \/ analyzeCurrentVoiceResume /\ UNCHANGED <<hook, restVars>>

SpecHistory == InitHistory /\ [][NextHistory]_vars

\* C2: metricsHistory never holds more than 300 snapshots and holds them in
\* insertion order; the completion of a tick appends its snapshot at the end,
\* and when 300 were already stored it drops exactly the oldest one.
C2_HistoryBoundedFifo ==
    [][/\ Len(metricsHistory') <= 300
       /\ \A i \in 1..(Len(metricsHistory') - 1) :
              metricsHistory'[i].timestamp < metricsHistory'[i + 1].timestamp
       /\ (tickPc = "awaitMetrics" /\ tickPc' = "idle")
              => metricsHistory' = IF Len(metricsHistory) = 300
                                   THEN Append(Tail(metricsHistory), pendingMetrics[1])
                                   ELSE Append(metricsHistory, pendingMetrics[1])]_vars

C2_Witness ==
    /\ Len(metricsHistory) = 300
    /\ metricsHistory[1].timestamp = 3
    /\ metricsHistory[300].timestamp = 302

(***************************************************************************)
(* generateRecommendations as a function of the snapshot: the snapshot is  *)
(* drawn around the thresholds of the rules.                               *)
(***************************************************************************)
RecSnapshots ==
    [volume : {Fx(10), Fx(30), Fx(80), Fx(90)},
     clarity : {Fx(59), Fx(60)},
     pace : {Fx(29), Fx(30), Fx(80), Fx(81)},
     fluency : [fillerWordCount : {3, 4}, pauseFrequency : {Fx(30), Fx(31)}],
     voiceStability : [jitter : {Fx(2), Fx(3)}]]

InitRecommend ==
    /\ fresh("enhanced", FALSE)
    /\ recInput \in {<<m>> : m \in RecSnapshots}
    /\ recOutput = <<>>
    /\ hook = unmountedHook
    /\ restIdle

\* const recommendations = this.generateRecommendations(currentMetrics, trends)
recommend ==
    /\ recOutput = <<>>
    /\ recOutput' = <<generateRecommendations(recInput[1])>>
    /\ UNCHANGED <<kind, deepgramApiKey, audioContext, analyser, microphone,
                   scriptProcessor, deepgramConnection, dataArray, frequencyData,
                   audioBuffer, metricsHistory, isAnalyzing, transcriptionBuffer,
                   audioEvents, initPc, tickPc, pendingMetrics, now, lastOp, lastResult,
                   calls, recInput>>

NextRecommend == recommend /\ UNCHANGED <<hook, restVars>>

SpecRecommend == InitRecommend /\ [][NextRecommend]_vars

\* C8: the result is the first min(3, k) of the k messages triggered by the
\* eight rules taken in the order volume-too-low, volume-too-high, clarity-low,
\* pace-too-slow, pace-too-fast, filler-word-excess, pause-excess,
\* stability-poor; it has at most 3 messages, and when volume < 30 its first
\* message is the speak-louder message.
C8_TopThreeInRuleOrder ==
    recOutput # <<>> =>
        LET m == recInput[1]
            rules == <<[fires |-> m.volume < Fx(30),
                        message |-> "Speak louder for better projection"],
                       [fires |-> m.volume > Fx(80),
                        message |-> "Lower your voice volume slightly"],
                       [fires |-> m.clarity < Fx(60),
                        message |-> "Focus on clearer articulation"],
                       [fires |-> m.pace < Fx(30),
                        message |-> "Increase your speaking pace"],
                       [fires |-> m.pace > Fx(80),
                        message |-> "Slow down your speaking pace"],
                       [fires |-> m.fluency.fillerWordCount > 3,
                        message |-> "Reduce use of filler words"],
                       [fires |-> m.fluency.pauseFrequency > Fx(30),
                        message |-> "Reduce excessive pauses"],
                       [fires |-> m.voiceStability.jitter > Fx(2),
                        message |-> "Work on voice steadiness"]>>
            triggered == SelectSeq(rules, LAMBDA r : r.fires)
            k == Len(triggered)
            kept == IF k < 3 THEN k ELSE 3
        IN  /\ recOutput[1] = [i \in 1..kept |-> triggered[i].message]
            /\ Len(recOutput[1]) <= 3
            /\ m.volume < Fx(30) => recOutput[1][1] = "Speak louder for better projection"

C8_Witness ==
    /\ recOutput # <<>>
    /\ recInput[1].volume < Fx(30)
    /\ Len(triggeredRecommendations(recInput[1])) = 6
    /\ Len(recOutput[1]) = 3

(***************************************************************************)
(* Score and trends returned by a tick.                                    *)
(***************************************************************************)
\* C11: the overallScore returned by a tick is a number in [0,100], never NaN.
C11_OverallScoreInRange ==
    (kind = "enhanced" /\ lastResult # <<>>)
        => inRange(lastResult[1].overallScore, 0, Fx(100))

\* C12: the trends returned by a tick have length min(30, |metricsHistory|),
\* list the volume, clarity and pace of the last snapshots of the history (the
\* tick's own snapshot already appended) in insertion order, and end with the
\* values of the snapshot the tick returns.
C12_TrendsFollowHistory ==
    (kind = "enhanced" /\ lastResult # <<>>) =>
        LET result == lastResult[1]
            size == Len(metricsHistory)
            n == IF size < 30 THEN size ELSE 30
            follows(trend, value(_)) ==
                /\ Len(trend) = n
                /\ \A j \in 1..n : trend[j] = value(metricsHistory[size - n + j])
                /\ trend[n] = value(result.currentMetrics)
            volumeOf(m) == m.volume
            clarityOf(m) == m.clarity
            paceOf(m) == m.pace
        IN  /\ follows(result.trends.volumeTrend, volumeOf)
            /\ follows(result.trends.clarityTrend, clarityOf)
            /\ follows(result.trends.paceTrend, paceOf)

C12_Witness ==
    /\ lastResult # <<>>
    /\ Len(metricsHistory) = 31
    /\ Len(lastResult[1].trends.volumeTrend) = 30
    /\ lastResult[1].trends.volumeTrend[1] = metricsHistory[2].volume
    /\ metricsHistory[1].volume # metricsHistory[2].volume

(***************************************************************************)
(* The raw-window buffer under a long stream of audio callbacks: an        *)
(* EnhancedVoiceAnalyzer or AdvancedVoiceAnalyzer is initialized and the   *)
(* audio thread delivers windows that alternate between silence and tone.  *)
(***************************************************************************)
nextWindow ==
    IF audioBuffer # <<>> /\ audioBuffer[Len(audioBuffer)] = ZeroWindow
    THEN SquareWindow ELSE ZeroWindow

InitBuffer ==
    /\ \E k \in {"enhanced", "advanced"} : fresh(k, FALSE)
    /\ recInput = <<>>
    /\ recOutput = <<>>
    /\ hook = unmountedHook
    /\ restIdle

NextBuffer ==
    \/ calls.inits = 0 /\ initialize(initSteps) /\ UNCHANGED <<hook, restVars>>
    \/ processAudioBuffer(nextWindow) /\ UNCHANGED <<hook, restVars>>

SpecBuffer == InitBuffer /\ [][NextBuffer]_vars

C16_DestroyMidTick ==
    [][(/\ calls.initialized
        /\ lastOp.op = "destroy"
        /\ tickPc = "awaitMetrics"
        /\ tickPc' = "idle")
           => metricsHistory' = <<>>]_vars

\* C17: from destroy() onward the raw-window buffer of an EnhancedVoiceAnalyzer
\* or AdvancedVoiceAnalyzer stays empty, whatever audio callback arrives late.
C17_NoWindowAfterDestroy ==
    (kind # "basic" /\ calls.sinceDestroy) => audioBuffer = <<>>

\* C18: in the EnhancedVoiceAnalyzer, isAnalyzing = true implies that the
\* analyser handle is held.
C18_AnalyzingImpliesAnalyser ==
    (kind = "enhanced" /\ isAnalyzing) => analyser # "null"

(***************************************************************************)
(* Transcripts: the onmessage handler of the transcript socket, and ticks  *)
(* of an EnhancedVoiceAnalyzer with and without received transcripts.      *)
(***************************************************************************)
TranscriptTicks == 2
MaxTranscriptChars == 4

Transcripts ==
    {<<"u", "m">>,
     <<"S", "o", " ", "U", "m">>,
     <<" ">>}

\* transcript.trim() is empty
blank(transcript) == \A i \in 1..Len(transcript) : transcript[i] = " "

\* variant: the buffer is never cut
analyzeTranscriptUncut(buffer) == buffer

\* analyzeTranscript: a buffer longer than 1000 characters keeps its last 500
analyzeTranscript(buffer) == IF Len(buffer) > 1000 THEN SliceLast(buffer, 500) ELSE buffer

\* deepgramConnection.onmessage with data.channel.alternatives[0].transcript
deepgramMessage(transcript) ==
    /\ kind = "enhanced"
    /\ deepgramConnection = "held"
    /\ initPc = "idle"
    /\ tickPc = "idle"
    /\ transcriptionBuffer' = IF blank(transcript) THEN transcriptionBuffer
                              ELSE analyzeTranscript(transcriptionBuffer \o transcript \o <<" ">>)
    /\ lastOp' = done("message", "ok")
    /\ UNCHANGED <<kind, deepgramApiKey, audioContext, analyser, microphone,
                   scriptProcessor, deepgramConnection, dataArray, frequencyData,
                   audioBuffer, metricsHistory, isAnalyzing, audioEvents, initPc, tickPc,
                   pendingMetrics, now, lastResult, calls, recInput, recOutput>>

InitTranscript ==
    /\ \E key \in BOOLEAN : fresh("enhanced", key)
    /\ recInput = <<>>
    /\ recOutput = <<>>
    /\ hook = unmountedHook
    /\ restIdle

NextTranscript ==
    \/ \E completed \in 0..7 :
           calls.inits = 0 /\ initialize(completed) /\ UNCHANGED <<hook, restVars>>
    \/ initializeResume /\ UNCHANGED <<hook, restVars>>
    \/ \E transcript \in Transcripts :
           Len(transcriptionBuffer) < MaxTranscriptChars /\ deepgramMessage(transcript)
           /\ UNCHANGED <<hook, restVars>>
    \/ \E frame \in Frames :
           now < TranscriptTicks /\ analyzeCurrentVoice(frame) /\ UNCHANGED <<hook, restVars>>
    \/ analyzeCurrentVoiceResume /\ UNCHANGED <<hook, restVars>>

SpecTranscript == InitTranscript /\ [][NextTranscript]_vars

\* C15: while no transcript has been received, a tick of an initialized
\* EnhancedVoiceAnalyzer is not refused, reports fluency.fillerWordCount = 0
\* and fluency.speechRate = 0, and completes without error with that snapshot.
C15_NoTranscriptDefaults ==
    [][/\ (analysisCall /\ calls.initialized /\ transcriptionBuffer = <<>>)
           => /\ lastOp'.outcome = "pending"
              /\ pendingMetrics'[1].fluency.fillerWordCount = 0
              /\ pendingMetrics'[1].fluency.speechRate = 0
       /\ (tickPc = "awaitMetrics" /\ tickPc' = "idle")
           => /\ lastOp'.outcome = "ok"
              /\ lastResult'[1].currentMetrics = pendingMetrics[1]]_vars

C15_Witness ==
    /\ deepgramApiKey
    /\ deepgramConnection = "null"
    /\ calls.initialized
    /\ transcriptionBuffer = <<>>
    /\ tickPc = "awaitMetrics"
    /\ Len(metricsHistory) = 1
    /\ pendingMetrics[1].fluency.fillerWordCount = 0
    /\ pendingMetrics[1].fluency.speechRate = 0

(***************************************************************************)
(* useVoiceAnalyzer: one mounted hook instance.  With Deepgram enabled it  *)
(* owns an EnhancedVoiceAnalyzer (the analyzer of this module) and an      *)
(* AdvancedVoiceAnalyzer, starts a 1 s interval that ticks the enhanced    *)
(* analyzer, and tears down in stopRecording and in the effect cleanup.    *)
(* Timers are numbered from 1; analysisIntervalRef = 0 is null.            *)
(***************************************************************************)
MaxStarts == 2
HookTicks == 2

analyzerVars == <<kind, deepgramApiKey, audioContext, analyser, microphone, scriptProcessor,
                  deepgramConnection, dataArray, frequencyData, audioBuffer,
                  metricsHistory, isAnalyzing, transcriptionBuffer, audioEvents, initPc,
                  tickPc, pendingMetrics, now, lastOp, lastResult, calls, recInput,
                  recOutput>>

\* after the mount effect: the analyzers exist when enableDeepgram and a key are given
InitHook ==
    /\ \E enabled \in BOOLEAN :
           /\ fresh("enhanced", enabled)
           /\ hook = [unmountedHook EXCEPT !.mounted = TRUE, !.enabled = enabled]
    /\ recInput = <<>>
    /\ recOutput = <<>>
    /\ restIdle

\* no macrotask (click, timer, effect cleanup) runs while an async call is
\* suspended on an already settled promise
betweenTasks == hook.pc # "awaitEnhanced" /\ initPc = "idle" /\ tickPc = "idle"

\* startRecording() up to `await navigator.mediaDevices.getUserMedia(...)`
startRecording ==
    /\ hook.mounted
    /\ hook.pc = "idle"
    /\ betweenTasks
    /\ hook' = [hook EXCEPT !.pc = "awaitMedia", !.stopped = FALSE, !.starts = @ + 1]
    /\ UNCHANGED analyzerVars

\* startRecording() from the settlement of getUserMedia up to the await of
\* enhancedAnalyzerRef.current.initialize(stream)
startRecordingMedia(granted, completed) ==
    /\ hook.pc = "awaitMedia"
    /\ betweenTasks
    /\ IF ~granted
       THEN /\ hook' = [hook EXCEPT !.pc = "idle"]
            /\ UNCHANGED analyzerVars
       ELSE IF ~hook.enabled
       THEN /\ hook' = [hook EXCEPT !.pc = "idle", !.isRecording = TRUE]
            /\ UNCHANGED analyzerVars
       ELSE /\ initialize(completed)
            /\ hook' = [hook EXCEPT !.pc = IF completed = initSteps THEN "awaitEnhanced"
                                           ELSE "idle"]

\* startRecording() after the enhanced analyzer's initialize() resolved:
\* setInterval, then the advanced analyzer's initialize(), then setIsRecording(true)
startRecordingFinish(advancedOk) ==
    /\ hook.pc = "awaitEnhanced"
    /\ initPc = "idle"
    /\ hook' = [hook EXCEPT !.pc = "idle",
                            !.intervals = @ \cup {hook.nextId},
                            !.analysisIntervalRef = hook.nextId,
                            !.nextId = @ + 1,
                            !.isRecording = IF advancedOk THEN TRUE ELSE @]
    /\ UNCHANGED analyzerVars

\* the callback of a live interval: await enhancedAnalyzerRef.current.analyzeCurrentVoice()
intervalTick(id, frame) ==
    /\ id \in hook.intervals
    /\ betweenTasks
    /\ analyzeCurrentVoice(frame)
    /\ UNCHANGED hook

stopRecording ==
    /\ hook.mounted
    /\ betweenTasks
    /\ hook' = [hook EXCEPT !.isRecording = FALSE, !.stopped = TRUE]
    /\ UNCHANGED analyzerVars

\* the cleanup of the mount effect
unmount ==
    /\ hook.mounted
    /\ betweenTasks
    /\ IF hook.enabled THEN destroy ELSE UNCHANGED analyzerVars
    /\ hook' = [hook EXCEPT !.mounted = FALSE,
                            !.intervals = @ \ {hook.analysisIntervalRef}]

NextHook ==
    \/ hook.starts < MaxStarts /\ startRecording /\ UNCHANGED restVars
    \/ \E granted \in BOOLEAN, completed \in 0..7 :
           startRecordingMedia(granted, completed) /\ UNCHANGED restVars
    \/ initializeResume /\ UNCHANGED <<hook, restVars>>
    \/ \E advancedOk \in BOOLEAN : startRecordingFinish(advancedOk) /\ UNCHANGED restVars
    \/ \E id \in hook.intervals, frame \in Frames :
           now < HookTicks /\ intervalTick(id, frame) /\ UNCHANGED restVars
    \/ analyzeCurrentVoiceResume /\ UNCHANGED <<hook, restVars>>
    \/ stopRecording /\ UNCHANGED restVars
    \/ unmount /\ UNCHANGED restVars

SpecHook == InitHook /\ [][NextHook]_vars

\* C19: once stopRecording() has returned (and startRecording has not been
\* called again) no analysis interval is live and no tick calls
\* analyzeCurrentVoice().
C19_StopEndsTickLoop ==
    [][(hook'.stopped /\ hook'.pc = "idle")
           => (hook'.intervals = {} /\ (hook.stopped => ~analysisCall))]_vars

\* C20: at most one periodic analysis interval is live.
C20_SingleInterval == Cardinality(hook.intervals) <= 1

\* C26: for each analyzer variant the window bound of audioBuffer keeps the
\* retained audio at about 5 seconds: the number of retained windows times the
\* samples per window (2048 for the EnhancedVoiceAnalyzer, 4096 for the
\* AdvancedVoiceAnalyzer) never exceeds 5 * sampleRate plus one window.
C26_RetainedSpanFiveSeconds ==
    LET samplesPerWindow == IF kind = "enhanced" THEN analysisWindow ELSE AVA_bufferSize
    IN  Len(audioBuffer) * samplesPerWindow <= 5 * sampleRate + samplesPerWindow

(***************************************************************************)
(* Long transcripts: messages of up to 500 characters fill the buffer past *)
(* the 1000 characters at which analyzeTranscript cuts it.                 *)
(***************************************************************************)
\* messages are accepted while the buffer holds fewer than MaxWords words
MaxWords == 4

\* one word of 1, 250, 499 or 500 characters, or a blank transcript
LongTranscripts == {[i \in 1..n |-> "a"] : n \in {1, 250, 499, 500}} \cup {<<" ">>}

InitLongTranscript ==
    /\ fresh("enhanced", TRUE)
    /\ recInput = <<>>
    /\ recOutput = <<>>
    /\ hook = unmountedHook
    /\ restIdle

NextLongTranscript ==
    \/ calls.inits = 0 /\ initialize(initSteps) /\ UNCHANGED <<hook, restVars>>
    \/ initializeResume /\ UNCHANGED <<hook, restVars>>
    \/ \E transcript \in LongTranscripts :
           /\ Cardinality({i \in 1..Len(transcriptionBuffer) :
                              transcriptionBuffer[i] = " "}) < MaxWords
           /\ deepgramMessage(transcript)
           /\ UNCHANGED <<hook, restVars>>

SpecLongTranscript == InitLongTranscript /\ [][NextLongTranscript]_vars

\* C28: after the handler of every transcript message has finished,
\* transcriptionBuffer holds at most 1000 characters, whatever the number of
\* messages received (each of at most 500 characters).
C28_TranscriptBufferBounded ==
    lastOp.op = "message" => Len(transcriptionBuffer) <= 1000

\* four words of 250 characters made 1004 characters, cut to the last 500
C28_Witness ==
    /\ lastOp.op = "message"
    /\ Len(transcriptionBuffer) = 500
    /\ transcriptionBuffer[249] = " "
    /\ transcriptionBuffer[500] = " "

(***************************************************************************)
(* AIConversationService: sessions per room and their conversationHistory. *)
(* A history entry is kept as its role.                                    *)
(***************************************************************************)
\* processUserInput() calls made in one behaviour, and sessions started
MaxInputs == 13
MaxSessions == 2

InitConversation ==
    /\ fresh("enhanced", FALSE)
    /\ recInput = <<>>
    /\ recOutput = <<>>
    /\ hook = unmountedHook
    /\ probe = <<>>
    /\ \E key \in BOOLEAN : aiService = newAIConversationService(key)
    /\ liveKit = newLiveKitService

\* startConversation(roomName, topicId); the greeting timer it sets only calls
\* generateResponse(), which reads no session state
startConversation(roomName, topicFound) ==
    /\ Len(aiService.sessions) < MaxSessions
    /\ aiService' =
           IF ~topicFound
           THEN [aiService EXCEPT !.last = [op |-> "startConversation", room |-> roomName,
                                            outcome |-> "Topic not found"]]
           ELSE [aiService EXCEPT
                    !.sessions = Append(@, [roomName |-> roomName, isActive |-> TRUE,
                                            conversationHistory |-> <<"system">>]),
                    !.activeSessions[roomName] = Len(aiService.sessions) + 1,
                    !.last = [op |-> "startConversation", room |-> roomName,
                              outcome |-> "ok"]]
    /\ UNCHANGED <<analyzerVars, hook, probe, liveKit>>

\* processUserInput(roomName, userInput) up to its await: it throws without a
\* session, pushes the user entry, and either suspends on the LLM request or,
\* without a key, is rejected by generateAIResponse() before any request
processUserInput(roomName) ==
    LET session == aiService.activeSessions[roomName]
        called == [aiService EXCEPT !.inputs = @ + 1]
    IN  /\ Len(aiService.suspended) < 2
        /\ aiService' =
               IF session = 0 \/ ~aiService.sessions[session].isActive
               THEN [called EXCEPT !.last = [op |-> "processUserInput",
                                             room |-> roomName, session |-> 0,
                                             outcome |-> "No active session found"]]
               ELSE IF ~aiService.openRouterApiKey
               THEN [called EXCEPT
                        !.sessions[session].conversationHistory = Append(@, "user"),
                        !.last = [op |-> "processUserInput", room |-> roomName,
                                  session |-> session,
                                  outcome |-> "OpenRouter API key not configured"]]
               ELSE [called EXCEPT
                        !.sessions[session].conversationHistory = Append(@, "user"),
                        !.suspended = Append(@, session),
                        !.last = [op |-> "await", room |-> roomName, session |-> session,
                                  outcome |-> "pending"]]
        /\ UNCHANGED <<analyzerVars, hook, probe, liveKit>>

\* the rest of a suspended processUserInput(): the response (or the fallback
\* sentence of a failed request) is pushed and the history trimmed
processUserInputResume(i) ==
    LET session == aiService.suspended[i]
        pushed == Append(aiService.sessions[session].conversationHistory, "assistant")
        kept == IF Len(pushed) > 12 THEN <<pushed[1]>> \o SliceLast(pushed, 10) ELSE pushed
    IN  /\ aiService' = [aiService EXCEPT
               !.sessions[session].conversationHistory = kept,
               !.suspended = SubSeq(@, 1, i - 1) \o SubSeq(@, i + 1, Len(@)),
               !.last = [op |-> "processUserInput",
                         room |-> aiService.sessions[session].roomName,
                         session |-> session, outcome |-> "ok"]]
        /\ UNCHANGED <<analyzerVars, hook, probe, liveKit>>

endConversation(roomName) ==
    LET session == aiService.activeSessions[roomName]
    IN  /\ session # 0
        /\ aiService' = [aiService EXCEPT
               !.sessions[session].isActive = FALSE,
               !.activeSessions[roomName] = 0,
               !.last = [op |-> "endConversation", room |-> roomName, outcome |-> "ok"]]
        /\ UNCHANGED <<analyzerVars, hook, probe, liveKit>>

NextConversation ==
    \/ \E roomName \in Rooms, topicFound \in BOOLEAN : startConversation(roomName, topicFound)
    \/ \E roomName \in Rooms : aiService.inputs < MaxInputs /\ processUserInput(roomName)
    \/ \E i \in 1..Len(aiService.suspended) : processUserInputResume(i)
    \/ \E roomName \in Rooms : endConversation(roomName)

SpecConversation == InitConversation /\ [][NextConversation]_vars

\* C29: at the completion of every processUserInput() call, overlapping calls
\* for one room included, the session's conversationHistory has at most 12
\* entries and its first entry is the system message; a call for a room with no
\* active session fails with 'No active session found' and changes no session.
C29_HistoryAtMostTwelve ==
    [][(aiService'.last.op = "processUserInput" /\ aiService' # aiService) =>
           LET session == aiService'.last.session
           IN  IF session = 0
               THEN /\ aiService'.last.outcome = "No active session found"
                    /\ aiService'.sessions = aiService.sessions
                    /\ aiService'.activeSessions = aiService.activeSessions
               ELSE /\ Len(aiService'.sessions[session].conversationHistory) <= 12
                    /\ aiService'.sessions[session].conversationHistory[1] = "system"]_vars

(***************************************************************************)
(* LiveKitService: agent processes per room and their health-check timers. *)
(***************************************************************************)
\* processes spawned in one behaviour
MaxSpawns == 3

InitLiveKit ==
    /\ fresh("enhanced", FALSE)
    /\ recInput = <<>>
    /\ recOutput = <<>>
    /\ hook = unmountedHook
    /\ restIdle

\* variant: the interval is left running and only the map entry is removed
stopHealthCheckUncleared(lk, roomName) ==
    [lk EXCEPT !.agentHealthChecks[roomName] = 0]

\* stopHealthCheck(roomName): clearInterval and delete, when an entry exists
stopHealthCheck(lk, roomName) ==
    LET healthCheck == lk.agentHealthChecks[roomName]
    IN  IF healthCheck = 0 THEN lk
        ELSE [lk EXCEPT !.timers = {t \in @ : t.id # healthCheck},
                        !.agentHealthChecks[roomName] = 0]

\* startHealthCheck(roomName): the existing check is stopped, a new interval set
startHealthCheck(lk, roomName) ==
    LET stopped == stopHealthCheck(lk, roomName)
    IN  [stopped EXCEPT !.timers = @ \cup {[id |-> lk.nextTimer, room |-> roomName]},
                        !.agentHealthChecks[roomName] = lk.nextTimer,
                        !.nextTimer = @ + 1]

\* cleanupAgent(roomName): the registered process is killed and removed, then
\* the health check stopped
cleanupAgent(lk, roomName) ==
    LET agentProcess == lk.activeAgents[roomName]
        removed == IF agentProcess = 0 THEN lk
                   ELSE [lk EXCEPT !.processes[agentProcess].killed = TRUE,
                                   !.activeAgents[roomName] = 0]
    IN  stopHealthCheck(removed, roomName)

\* startVoiceAgent(roomName, options) up to its closing two-second wait: the
\* process is spawned and registered, its handlers attached, the check started
startVoiceAgent(roomName) ==
    /\ Len(liveKit.processes) < MaxSpawns
    /\ liveKit' =
           startHealthCheck(
               [liveKit EXCEPT
                   !.processes = Append(@, [room |-> roomName, killed |-> FALSE,
                                            errored |-> FALSE, exited |-> FALSE]),
                   !.activeAgents[roomName] = Len(liveKit.processes) + 1,
                   !.last = [op |-> "startVoiceAgent", room |-> roomName]],
               roomName)
    /\ UNCHANGED <<analyzerVars, hook, probe, aiService>>

\* the 'error' and 'close' handlers of a spawned process: cleanupAgent(roomName)
\* for the room the process was started for
agentEvent(agentProcess, event) ==
    LET process == liveKit.processes[agentProcess]
    IN  /\ ~process.exited
        /\ event = "error" => ~process.errored
        /\ liveKit' =
               cleanupAgent(
                   [liveKit EXCEPT
                       !.processes[agentProcess].errored = (@ \/ event = "error"),
                       !.processes[agentProcess].exited = (event = "close"),
                       !.last = [op |-> event, room |-> process.room]],
                   process.room)
        /\ UNCHANGED <<analyzerVars, hook, probe, aiService>>

\* the callback of a live health-check interval
healthCheckTick(timer) ==
    LET agentProcess == liveKit.activeAgents[timer.room]
        ticked == [liveKit EXCEPT !.last = [op |-> "healthCheck", room |-> timer.room]]
    IN  /\ liveKit' = IF agentProcess = 0 \/ liveKit.processes[agentProcess].killed
                      THEN cleanupAgent(ticked, timer.room)
                      ELSE ticked
        /\ UNCHANGED <<analyzerVars, hook, probe, aiService>>

\* stopVoiceAgent(roomName): kill() and cleanupAgent() when a process is registered
stopVoiceAgent(roomName) ==
    LET agentProcess == liveKit.activeAgents[roomName]
        called == [liveKit EXCEPT !.last = [op |-> "stopVoiceAgent", room |-> roomName]]
    IN  /\ liveKit' = IF agentProcess = 0 THEN called
                      ELSE cleanupAgent(
                               [called EXCEPT !.processes[agentProcess].killed = TRUE],
                               roomName)
        /\ UNCHANGED <<analyzerVars, hook, probe, aiService>>

NextLiveKit ==
    \/ \E roomName \in Rooms : startVoiceAgent(roomName)
    \/ \E agentProcess \in 1..Len(liveKit.processes), event \in {"error", "close"} :
           agentEvent(agentProcess, event)
    \/ \E timer \in liveKit.timers : healthCheckTick(timer)
    \/ \E roomName \in Rooms : stopVoiceAgent(roomName)

SpecLiveKit == InitLiveKit /\ [][NextLiveKit]_vars

\* C30: after any sequence of startVoiceAgent, stopVoiceAgent, process close and
\* error events and health-check ticks, the rooms with a health-check timer are
\* exactly the rooms with a registered agent process, and the live interval
\* timers are exactly the registered ones: no timer outlives its agent and no
\* registered agent lacks one.
C30_TimersMatchAgents ==
    /\ {r \in Rooms : liveKit.agentHealthChecks[r] # 0}
           = {r \in Rooms : liveKit.activeAgents[r] # 0}
    /\ \A timer \in liveKit.timers : liveKit.agentHealthChecks[timer.room] = timer.id
    /\ \A r \in Rooms :
           liveKit.agentHealthChecks[r] # 0
               => [id |-> liveKit.agentHealthChecks[r], room |-> r] \in liveKit.timers

\* a room restarted while its first process was running, that process then
\* closed (which removed the second one and its timer); the other room is live
C30_Witness ==
    /\ Len(liveKit.processes) = 3
    /\ liveKit.processes[1].room = liveKit.processes[2].room
    /\ liveKit.processes[1].exited
    /\ liveKit.processes[2].killed
    /\ liveKit.activeAgents[liveKit.processes[1].room] = 0
    /\ liveKit.activeAgents[liveKit.processes[3].room] = 3
    /\ Cardinality(liveKit.timers) = 1

(***************************************************************************)
(* Extractors taken alone: probe holds the arguments of one call and, once *)
(* the call has returned, its value.                                       *)
(***************************************************************************)
\* the call under study returns value; nothing else moves
returns(value) ==
    /\ probe.output = <<>>
    /\ probe' = [probe EXCEPT !.output = <<value>>]
    /\ UNCHANGED <<analyzerVars, hook, aiService, liveKit>>

\* bins of the frequency arrays given to the coarse pitch extractors
PitchBins == 276

\* frequency frames around ties: three low bins of the voice band take every
\* combination of three magnitudes, bin 0 (below both scans) and bin 40 (inside
\* the scan of AdvancedVoiceAnalyzer only) are empty or strong
PitchFrames ==
    {[i \in 1..PitchBins |->
         IF i = 1 THEN below ELSE IF i = 2 THEN a ELSE IF i = 3 THEN b
         ELSE IF i = 4 THEN c ELSE IF i = 41 THEN above ELSE 0] :
     a \in {0, 5, 9}, b \in {0, 5, 9}, c \in {0, 5, 9},
     below \in {0, 200}, above \in {0, 9}}

PitchProbes ==
    [class : {"basic", "advanced"}, fn : {"calculatePitch"}, input : PitchFrames,
     output : {<<>>}]

\* VoiceAnalyzer.calculatePitch(this.frequencyData)
basicPitch ==
    /\ probe.fn = "calculatePitch" /\ kind = "basic"
    /\ returns(VA_calculatePitch(probe.input))

\* AdvancedVoiceAnalyzer.calculatePitch(this.frequencyData)
advancedPitch ==
    /\ probe.fn = "calculatePitch" /\ kind = "advanced"
    /\ returns(AVA_calculatePitch(probe.input))

\* audioBuffer contents of zero to five windows
WindowRuns == UNION {[1..n -> Windows] : n \in 0..5}

F0Probes ==
    [class : {"enhanced"}, fn : {"detectFundamentalFrequency"}, input : WindowRuns,
     output : {<<>>}]

\* EnhancedVoiceAnalyzer.detectFundamentalFrequency() with this.audioBuffer = input
fundamentalFrequency ==
    /\ probe.fn = "detectFundamentalFrequency"
    /\ returns(detectFundamentalFrequency(probe.input))

StabilityProbes ==
    [class : {"enhanced"}, fn : {"analyzeVoiceStability"},
     input : [freq : {SpeechFrame.freq}, buf : WindowRuns], output : {<<>>}]

\* EnhancedVoiceAnalyzer.analyzeVoiceStability() with this.frequencyData = input.freq
\* and this.audioBuffer = input.buf
voiceStability ==
    /\ probe.fn = "analyzeVoiceStability"
    /\ returns(analyzeVoiceStability(probe.input.freq, probe.input.buf))

\* emotional dimensions around the thresholds of the label rules, NaN included
EmotionProbes ==
    [class : {"enhanced"}, fn : {"analyzeEmotion"},
     input : [arousal : {NaN, 3999, 4000, 6000, 6001, 7000, 7001},
              valence : {NaN, 3999, 4000, 6000, 6001},
              dominance : {NaN, 7000, 7001}],
     output : {<<>>}]

\* the label rules of EnhancedVoiceAnalyzer.analyzeEmotion() on given dimensions
emotionLabel ==
    /\ probe.fn = "analyzeEmotion"
    /\ returns(primaryEmotion(probe.input.arousal, probe.input.valence,
                              probe.input.dominance))

\* transcript buffers with single-word and multi-word fillers
FillerTranscripts ==
    {<<"u", "m">>,
     <<"U", "m", " ", "l", "i", "k", "e">>,
     <<"y", "o", "u", " ", "k", "n", "o", "w">>,
     <<"u", "m", " ", "y", "o", "u", " ", "k", "n", "o", "w">>,
     <<"k", "i", "n", "d", " ", "o", "f", " ", "l", "i", "k", "e", " ", "i", "t">>,
     <<"s", "o", "r", "t", " ", "o", "f">>,
     <<"s", "o", " ", "i", "t", " ", "i", "s">>,
     <<"u", "h", " ", "u", "h">>}

FillerProbes ==
    [class : {"enhanced"}, fn : {"countFillerWords"}, input : FillerTranscripts,
     output : {<<>>}]

\* EnhancedVoiceAnalyzer.countFillerWords(fillerWords) with transcriptionBuffer = input
countFillers ==
    /\ probe.fn = "countFillerWords"
    /\ returns(countFillerWords(probe.input))

\* frames reaching the hook's analyzeAudio while fewer than 10 frames are
\* buffered in audioBufferRef, so that the basic fallback runs
AudioProbes ==
    [class : {"advanced"}, fn : {"analyzeAudio"},
     input : [frame : Frames, buffered : {0, 8}], output : {<<>>}]

\* useVoiceAnalyzer.analyzeAudio on the fallback path: the level given to
\* setAudioLevel and the metric appended to voiceMetrics.  calculateBasicPace reads
\* the voiceMetrics of the render that created the callback, which is empty
analyzeAudio ==
    /\ probe.fn = "analyzeAudio"
    /\ probe.input.buffered + 1 < 10
    /\ LET dataArray_ == probe.input.frame.time
           frequencyData_ == probe.input.frame.freq
           bufferLength == Len(dataArray_)
           average == TruncDiv(Fx(SumSeq(dataArray_)), bufferLength)
           volume == MathMin(Fx(100), MulFx(DivFx(average, Fx(128)), Fx(100)))
           startIndex == (85 * bufferLength) \div 22050
           endIndex == (400 * bufferLength) \div 22050
           maxIndex == dominantBin(frequencyData_, startIndex, endIndex, 0, 0)
           frequency == TruncDiv(Fx(maxIndex * 22050), bufferLength)
           calculateBasicPitch ==
               IF frequency <= Fx(85) THEN 0
               ELSE MathMin(Fx(100),
                        MulFx(DivFx(MathLog10(DivFx(frequency, Fx(85))),
                                    MathLog10(DivFx(Fx(400), Fx(85)))), Fx(100)))
           totalEnergy == SumSeq([i \in 1..bufferLength |->
                                     frequencyData_[i] * frequencyData_[i]])
           weightedSum == SumSeq([i \in 1..bufferLength |-> (i - 1) * frequencyData_[i]])
           magnitudeSum == SumSeq(frequencyData_)
           spectralCentroid == IF magnitudeSum > 0
                               THEN DivFx(Fx(weightedSum), Fx(magnitudeSum)) ELSE 0
           normalizedCentroid == TruncDiv(spectralCentroid, bufferLength)
           energyFactor == MathMin(Fx(1), DivFx(Fx(totalEnergy), Fx(bufferLength * 100)))
           volumeFactor == MathMin(Fx(1), volume * 2)
           calculateBasicClarity ==
               MathMin(Fx(100), MathMax(0,
                   MulFx(MulFx(MulFx(normalizedCentroid, energyFactor), volumeFactor),
                         Fx(100))))
       IN  returns([audioLevel |-> volume,
                    basicMetric |-> [volume |-> volume, pitch |-> calculateBasicPitch,
                                     clarity |-> calculateBasicClarity, pace |-> Fx(50)]])

\* an object of the class of the method under study, before initialize()
InitExtractors ==
    /\ \/ probe \in PitchProbes
       \/ probe \in F0Probes
       \/ probe \in StabilityProbes
       \/ probe \in EmotionProbes
       \/ probe \in FillerProbes
       \/ probe \in AudioProbes
    /\ fresh(probe.class, FALSE)
    /\ recInput = <<>>
    /\ recOutput = <<>>
    /\ hook = unmountedHook
    /\ aiService = newAIConversationService(TRUE)
    /\ liveKit = newLiveKitService

NextExtractors ==
    \/ basicPitch
    \/ advancedPitch
    \/ fundamentalFrequency
    \/ voiceStability
    \/ emotionLabel
    \/ countFillers
    \/ analyzeAudio

SpecExtractors == InitExtractors /\ [][NextExtractors]_vars

\* the 0-based bins the extractor of the class scans
scannedBand ==
    IF kind = "basic"
    THEN {i \in 0..(PitchBins - 1) :
             /\ i >= (80 * PitchBins) \div (sampleRate \div 2)
             /\ i < (1000 * PitchBins) \div (sampleRate \div 2)}
    ELSE {i \in 1..(PitchBins - 1) : 4 * i < PitchBins}

bandMaximum == CHOOSE m \in {probe.input[i + 1] : i \in scannedBand} :
                   \A i \in scannedBand : probe.input[i + 1] <= m

firstMaximalBin == CHOOSE i \in scannedBand :
                       /\ probe.input[i + 1] = bandMaximum
                       /\ \A j \in scannedBand : j < i => probe.input[j + 1] < bandMaximum

binHz(i) == (i * (sampleRate \div 2) * Scale) \div PitchBins

C22_DefaultBelowFiveWindows ==
    (probe.fn = "detectFundamentalFrequency" /\ probe.output # <<>>) =>
        LET buf == probe.input
            latest == buf[Len(buf)]
            upper == IF sampleRate \div 80 < Len(latest) THEN sampleRate \div 80
                     ELSE Len(latest)
            positive == {p \in (sampleRate \div 400)..(upper - 1) :
                            autocorrelate(latest, p) > 0}
            bestLag == CHOOSE p \in positive : \A q \in positive :
                           \/ autocorrelate(latest, q) < autocorrelate(latest, p)
                           \/ autocorrelate(latest, q) = autocorrelate(latest, p) /\ q >= p
        IN  probe.output[1] =
                IF Len(buf) < 5 THEN Fx(150)
                ELSE IF positive = {} THEN Fx(150)
                ELSE DivFx(Fx(sampleRate), Fx(bestLag))

\* C23: with at least 5 raw windows buffered, jitter is computed from five
\* fundamental-frequency estimates, one per each of the last five windows, as
\* the mean absolute successive difference divided by the mean F0 (in percent,
\* capped at 10); so windows with differing F0 give jitter > 0.
C23_JitterFromFiveWindows ==
    (probe.fn = "analyzeVoiceStability" /\ probe.output # <<>>
        /\ Len(probe.input.buf) >= 5) =>
        LET recent == SliceLast(probe.input.buf, 5)
            f0 == [i \in 1..5 |-> detectFundamentalFrequency(<<recent[i]>>)]
            meanF0 == TruncDiv(SumSeq(f0), 5)
            steps == [i \in 1..4 |-> Abs(f0[i + 1] - f0[i])]
            jitter == MulFx(DivFx(TruncDiv(SumSeq(steps), 4), meanF0), Fx(100))
        IN  /\ probe.output[1].jitter = MathMin(Fx(10), jitter)
            /\ (\E i, j \in 1..5 : f0[i] # f0[j]) => probe.output[1].jitter > 0

\* C24: the emotion label is that of the first rule that matches in the order
\* happy (arousal > 60 and valence > 60), angry (arousal > 60 and valence < 40),
\* sad (arousal < 40 and valence < 40), excited (arousal > 70), confident
\* (dominance > 70), and neutral when none matches; every triple gets exactly
\* one label and a later rule never overrides an earlier matching one.
C24_FirstMatchingRule ==
    (probe.fn = "analyzeEmotion" /\ probe.output # <<>>) =>
        LET a == probe.input.arousal
            v == probe.input.valence
            d == probe.input.dominance
            rules == <<[fires |-> Greater(a, Fx(60)) /\ Greater(v, Fx(60)), label |-> "happy"],
                       [fires |-> Greater(a, Fx(60)) /\ Less(v, Fx(40)), label |-> "angry"],
                       [fires |-> Less(a, Fx(40)) /\ Less(v, Fx(40)), label |-> "sad"],
                       [fires |-> Greater(a, Fx(70)), label |-> "excited"],
                       [fires |-> Greater(d, Fx(70)), label |-> "confident"]>>
            matching == SelectSeq(rules, LAMBDA r : r.fires)
        IN  /\ probe.output[1] = IF matching = <<>> THEN "neutral" ELSE matching[1].label
            /\ probe.output[1] \in {"happy", "angry", "sad", "excited", "confident",
                                    "neutral"}
            /\ \A i \in 1..5 : (rules[i].fires /\ \A j \in 1..(i - 1) : ~rules[j].fires)
                                   => probe.output[1] = rules[i].label

C24_Witness ==
    /\ probe.fn = "analyzeEmotion"
    /\ probe.output = <<"happy">>
    /\ probe.input.arousal > Fx(70)
    /\ probe.input.valence > Fx(60)
    /\ probe.input.dominance > Fx(70)

\* C25: fluency.fillerWordCount is the number of exact, case-insensitive
\* occurrences in the transcript buffer of entries of the lexicon um, uh, like,
\* you know, sort of, kind of, actually, basically, the multi-word entries
\* included.
C25_FillerCountWithMultiWord ==
    (probe.fn = "countFillerWords" /\ probe.output # <<>>) =>
        LET text == [i \in 1..Len(probe.input) |-> ToLowerCase(probe.input[i])]
            occursAt(k, p) ==
                LET entry == fillerWords[k]
                    last == p + Len(entry) - 1
                IN  /\ last <= Len(text)
                    /\ \A i \in 1..Len(entry) : text[p + i - 1] = entry[i]
                    /\ (p = 1 \/ text[p - 1] = " ")
                    /\ (last = Len(text) \/ text[last + 1] = " ")
        IN  probe.output[1] =
                Cardinality({<<k, p>> \in (1..Len(fillerWords)) \X (1..Len(text)) :
                                occursAt(k, p)})

\* C27: in useVoiceAnalyzer.analyzeAudio a silent frame (every time-domain byte
\* at the midpoint 128) gives audioLevel 0, and the basic metric appended to
\* voiceMetrics for that frame has volume 0.
C27_SilentFrameLevelZero ==
    (probe.fn = "analyzeAudio" /\ probe.output # <<>> /\ silent(probe.input.frame.time))
        => (probe.output[1].audioLevel = 0 /\ probe.output[1].basicMetric.volume = 0)

====
